---- MODULE Spec2Model ----
(***************************************************************************)
(* drdump (src/main.rs): dumps and translates skb drop reasons found in    *)
(* BTF files.  main() loads a BTF collection, extracts the core            *)
(* enumeration skb_drop_reason, removes SKB_DROP_REASON_SUBSYS_MASK,       *)
(* merges the non-core enumerations (first writer wins), extracts          *)
(* skb_drop_reason_subsys and prints one resolved value, the raw listing   *)
(* or a bpftrace / stap script.                                            *)
(*                                                                         *)
(* A u32 is the pair <<hi, lo>> of its two 16-bit halves (TLC's integers   *)
(* are 32-bit signed, 0xffff0000 does not fit): the value is               *)
(* hi * 65536 + lo.  A BTreeMap<u32, String> is a function from a finite   *)
(* set of such pairs to strings, iterated in ascending key order.          *)
(* Strings are TLA+ strings.                                               *)
(***************************************************************************)
EXTENDS Integers, Sequences, FiniteSets, TLC

VARIABLES args, pc, idx, reasons, subsys, calls, stdout, stderr, err

vars == <<args, pc, idx, reasons, subsys, calls, stdout, stderr, err>>

(***************************************************************************)
(* Bounds of the model.                                                    *)
(***************************************************************************)
\* Longest member list of an enumeration returned for a drop-reason name.
MaxMembers == 2
\* Longest member list of the skb_drop_reason_subsys enumeration.
MaxSubsys == 6

(***************************************************************************)
(* Program constants.                                                      *)
(***************************************************************************)
SKB_DROP_REASON_SUBSYS_NUM == 5

NON_CORE_REVERSED == <<"ovs_drop_reason", "mac80211_drop_reason">>

NON_CORE_DROP_REASONS == <<"mac80211_drop_reason", "ovs_drop_reason">>

CORE_ENUM == "skb_drop_reason"

SUBSYS_ENUM == "skb_drop_reason_subsys"

\* 0xffff0000, SKB_DROP_REASON_SUBSYS_MASK
SUBSYS_MASK == <<65535, 0>>

(***************************************************************************)
(* Option and Result values.                                               *)
(***************************************************************************)
None == [tag |-> "None"]

Some(x) == [tag |-> "Some", val |-> x]

Err(e) == [tag |-> "Err", err |-> e]

(***************************************************************************)
(* u32 arithmetic on <<hi, lo>>.                                           *)
(***************************************************************************)
\* `member.val() as u32`: the two's complement reinterpretation, v mod 2^32.
AsU32(v) == <<(v \div 65536) % 65536, v % 65536>>

\* val >> 16
ShiftRight16(u) == <<0, u[1]>>

\* u32 ordering (Ord for u32, the BTreeMap's key order)
Less(a, b) == a[1] < b[1] \/ (a[1] = b[1] /\ a[2] < b[2])

IsZero(u) == u = <<0, 0>>

\* u / 10 and u % 10, by long division over the two halves
Div10(u) == <<u[1] \div 10, ((u[1] % 10) * 65536 + u[2]) \div 10>>

Mod10(u) == ((u[1] % 10) * 65536 + u[2]) % 10

DigitChar(d) == SubSeq("0123456789", d + 1, d + 1)

\* Display for u32: the decimal digits, no sign, no leading zero
RECURSIVE Decimal(_)
Decimal(u) ==
    IF IsZero(Div10(u)) THEN DigitChar(Mod10(u))
    ELSE Decimal(Div10(u)) \o DigitChar(Mod10(u))

\* u32::checked_ilog10: None for 0, else floor(log10(u))
RECURSIVE ilog10(_)
ilog10(u) == IF IsZero(Div10(u)) THEN 0 ELSE 1 + ilog10(Div10(u))

checked_ilog10(u) == IF IsZero(u) THEN None ELSE Some(ilog10(u))

unwrap_or(o, d) == IF o.tag = "Some" THEN o.val ELSE d

(***************************************************************************)
(* BTreeMap<u32, String>.                                                  *)
(***************************************************************************)
EmptyMap == [k \in {} |-> ""]

Insert(m, k, v) == [x \in DOMAIN m \cup {k} |-> IF x = k THEN v ELSE m[x]]

Remove(m, k) == [x \in DOMAIN m \ {k} |-> m[x]]

MinKey(S) == CHOOSE k \in S : \A o \in S : o = k \/ Less(k, o)

MaxKeyOf(S) == CHOOSE k \in S : \A o \in S : o = k \/ Less(o, k)

\* BTreeMap::keys(): the keys in ascending order
RECURSIVE KeysOf(_)
KeysOf(S) ==
    IF S = {} THEN <<>> ELSE <<MinKey(S)>> \o KeysOf(S \ {MinKey(S)})

RECURSIVE KeysDescending(_)
KeysDescending(m) ==
    IF DOMAIN m = {} THEN <<>>
    ELSE <<MaxKeyOf(DOMAIN m)>> \o KeysDescending(Remove(m, MaxKeyOf(DOMAIN m)))

Keys(m) == KeysOf(DOMAIN m)

\* reasons.keys().max().unwrap_or(&0)
MaxKeyOr0(m) == IF DOMAIN m = {} THEN <<0, 0>> ELSE MaxKeyOf(DOMAIN m)

InsertOverwrite(m, k, v) == Insert(m, k, v)

\* reasons.entry(val).or_insert(reason)
EntryOrInsert(m, k, v) == IF k \in DOMAIN m THEN m ELSE Insert(m, k, v)

(***************************************************************************)
(* What the BTF collection answers.  resolve_types_by_name(name) either    *)
(* fails or returns the list of the types of that name; a type is a struct *)
(* or an enumeration with its members; a member has a raw 32-bit signed    *)
(* value and a name that resolve_name() may fail to resolve.               *)
(***************************************************************************)
StructType == [kind |-> "Struct", members |-> <<>>]

EnumType(ms) == [kind |-> "Enum", members |-> ms]

\* Raw member values; -65536 is 0xffff0000 read as a signed 32-bit value.
RawVals == {0, 12, -65536}

MemberName(name) ==
    CASE name = CORE_ENUM -> "TCP_CSUM"
      [] name = "mac80211_drop_reason" -> "MAC_FILTER"
      [] OTHER -> "OVS_DROP"

MemberLists(name) ==
    UNION {[1..n -> [val : RawVals, name : {MemberName(name)}, resolvable : BOOLEAN]]
              : n \in 0..MaxMembers}

\* A second enumeration of the same name, listed after the first one.
DecoyEnum == EnumType(<<[val |-> 12, name |-> "DECOY", resolvable |-> TRUE]>>)

SubsysName(v) ==
    CASE v = 0 -> "SKB_DROP_REASON_SUBSYS_CORE"
      [] v = 1 -> "SKB_DROP_REASON_SUBSYS_MAC80211_UNUSABLE"
      [] v = 2 -> "SKB_DROP_REASON_SUBSYS_MAC80211_MONITOR"
      [] v = 3 -> "SKB_DROP_REASON_SUBSYS_OPENVSWITCH"
      [] OTHER -> "SKB_DROP_REASON_SUBSYS_" \o DigitChar(v)

\* The first n subsystems, the last name resolvable or not.
SubsysLists ==
    {[i \in 1..n |-> [val |-> i - 1, name |-> SubsysName(i - 1),
                      resolvable |-> (i < n \/ r)]]
        : n \in 0..MaxSubsys, r \in BOOLEAN}

EnumLists(name) == IF name = SUBSYS_ENUM THEN SubsysLists ELSE MemberLists(name)

TypeLists(name) ==
    {<<>>, <<StructType>>}
    \cup {<<EnumType(ms)>> : ms \in EnumLists(name)}
    \cup {<<StructType, EnumType(ms)>> : ms \in EnumLists(name)}
    \cup {<<EnumType(ms), DecoyEnum>> : ms \in EnumLists(name)}

\* Result<Vec<(btf, Type)>> of resolve_types_by_name
QueryResults(name) ==
    {[ok |-> FALSE, types |-> <<>>]}
    \cup {[ok |-> TRUE, types |-> ts] : ts \in TypeLists(name)}

\* The error of btf.resolve_name(member)
NameError == "resolve_name failed"

(***************************************************************************)
(* parse_enum                                                              *)
(***************************************************************************)
\* types.iter().find(|(_, t)| matches!(t, &Type::Enum(_)))
FindEnum(types) ==
    LET E == {i \in 1..Len(types) : types[i].kind = "Enum"}
    IN  IF E = {} THEN None
        ELSE Some(types[CHOOSE i \in E : \A j \in E : i <= j])

\* for member in enum.members.iter() { values.insert(val as u32, resolve_name(member)?) }
RECURSIVE CollectMembers(_, _, _)
CollectMembers(members, i, values) ==
    IF i > Len(members) THEN Some(values)
    ELSE IF ~members[i].resolvable THEN Err(NameError)
    ELSE CollectMembers(members, i + 1,
                        Insert(values, AsU32(members[i].val), members[i].name))

parse_enum_propagate(q) ==
    IF ~q.ok THEN Err("resolve_types_by_name failed")
    ELSE IF FindEnum(q.types).tag = "None" THEN None
    ELSE CollectMembers(FindEnum(q.types).val.members, 1, EmptyMap)

\* Result<Option<BTreeMap>>: Some(values) and None are Ok(..), Err(e) is Err(e)
parse_enum(q) ==
    IF ~q.ok THEN None
    ELSE IF FindEnum(q.types).tag = "None" THEN None
    ELSE CollectMembers(FindEnum(q.types).val.members, 1, EmptyMap)

\* One invocation of parse_enum as the run's log keeps it.
Call(name, q) ==
    [name |-> name, query |-> IF q.ok THEN "ok" ELSE "err", ret |-> parse_enum(q)]

(***************************************************************************)
(* format_reason                                                           *)
(***************************************************************************)
\* the closure `format` of format_reason
Annotate(val, s, sub, verbose) ==
    IF verbose /\ sub.tag = "Some" /\ ShiftRight16(val) \in DOMAIN sub.val
    THEN s \o " (sub-system: " \o sub.val[ShiftRight16(val)] \o ")"
    ELSE s

format_reason_caller_verbose(val, rs, sub, verbose) ==
    IF val \in DOMAIN rs THEN Annotate(val, rs[val], sub, verbose)
    ELSE Annotate(val, "Unknown reason " \o Decimal(val), sub, verbose)

format_reason(val, rs, sub, verbose) ==
    IF val \in DOMAIN rs THEN Annotate(val, rs[val], sub, verbose)
    ELSE Annotate(val, "Unknown reason " \o Decimal(val), sub, TRUE)

(***************************************************************************)
(* The raw listing                                                         *)
(***************************************************************************)
RECURSIVE Spaces(_)
Spaces(n) == IF n <= 0 THEN "" ELSE " " \o Spaces(n - 1)

\* {i:width$}: an integer is right-aligned and filled with spaces
PadLeft(s, width) == Spaces(width - Len(s)) \o s

WidthOfCount(rs) == unwrap_or(checked_ilog10(<<0, Cardinality(DOMAIN rs)>>), 0) + 1

\* (keys().max().unwrap_or(&0).checked_ilog10().unwrap_or(0) + 1) as usize
Width(rs) == unwrap_or(checked_ilog10(MaxKeyOr0(rs)), 0) + 1

RawLine(i, rs, sub, verbose) ==
    PadLeft(Decimal(i), Width(rs)) \o " = " \o format_reason(i, rs, sub, verbose)

RawLines(rs, sub, verbose) ==
    [n \in 1..Len(Keys(rs)) |-> RawLine(Keys(rs)[n], rs, sub, verbose)]

(***************************************************************************)
(* format_bpftrace, format_stap                                            *)
(***************************************************************************)
\* reasons.iter().fold(String::new(), ...): one declaration per entry
RECURSIVE ReasonsDef(_, _, _)
ReasonsDef(array, rs, ks) ==
    IF ks = <<>> THEN ""
    ELSE "    " \o array \o "[" \o Decimal(Head(ks)) \o "] = \"" \o rs[Head(ks)]
         \o "\";\n" \o ReasonsDef(array, rs, Tail(ks))

format_bpftrace(rs) ==
    "#!/usr/bin/bpftrace\n\nBEGIN\n{\n"
    \o "    printf(\"Tracing dropped skbs... Hit Ctrl-C to end.\\n\");\n}\n\n"
    \o "tracepoint:skb:kfree_skb\n{\n"
    \o ReasonsDef("@drop_reasons", rs, Keys(rs))
    \o "\n    @stack[ksym(args->location),@drop_reasons[args->reason]] = count();\n"
    \o "    clear(@drop_reasons);\n}\n\n"
    \o "interval:s:5\n{\n    time(\"%F %T %z (%Z)\\n\");\n    print(@stack);\n"
    \o "    printf(\"\\n\");\n    clear(@stack);\n}\n\nEND\n{\n  clear(@stack);\n}"

format_stap(rs) ==
    "#! /usr/bin/env stap\n\nglobal skb_drop_reason\nglobal drop_reasons\n\n"
    \o "probe kernel.trace(\"kfree_skb\") {\n"
    \o "    skb_drop_reason[$location, $reason] <<< 1;\n}\n\n"
    \o "probe begin {\n"
    \o "    printf(\"Tracing dropped skbs... Hit Ctrl-C to end.\\n\");\n}\n\n"
    \o "# Report every 5 seconds\nprobe timer.sec(5)\n{\n"
    \o "    printf(\"\\n%s\", tz_ctime(gettimeofday_s()))\n"
    \o ReasonsDef("drop_reasons", rs, Keys(rs))
    \o "\n    printf(\"\\n%-35s%-35s%10s\\n\",\"Drop\",\"Location\",\"Count\");\n"
    \o "    foreach([location, reason] in skb_drop_reason) {\n"
    \o "        printf(\"%-35s%-35s%10d\\n\",symname(location),drop_reasons[reason],"
    \o "@count(skb_drop_reason[location, reason]))\n"
    \o "    }\n    delete skb_drop_reason\n}"

(***************************************************************************)
(* main                                                                    *)
(***************************************************************************)
\* The error of BtfCollection::from_dir, wrapped by main
LoadError == "Could not parse BTF files: from_dir failed"

UnsupportedError == "Drop reasons are not supported by this kernel"

InfoNotice ==
    "INFO: found more drop reasons than we know of. Drdump will still be able to "
    \o "resolve raw values into a sub-system when using --resolve.\n\n"

\* --resolve values: 0, and 0x00020005 = 131077
ResolveVals == {<<0, 0>>, <<2, 5>>}

\* struct Args (btf, the directory, is what LoadBtf reads).  main does not read
\* format when --resolve is given: it is then left at its default, "raw".
ArgsSet ==
    {a \in [resolve : {None} \cup {Some(v) : v \in ResolveVals},
            format : {"raw", "bpftrace", "stap"},
            verbose : BOOLEAN] :
        a.resolve.tag = "Some" => a.format = "raw"}

MergeFirstOnly(rs, sub) ==
    IF DOMAIN sub = {} THEN rs
    ELSE EntryOrInsert(rs, MinKey(DOMAIN sub), sub[MinKey(DOMAIN sub)])

\* while let Some((val, reason)) = subsys_reasons.pop_first() { ...or_insert }
RECURSIVE MergeInto(_, _)
MergeInto(rs, sub) ==
    IF DOMAIN sub = {} THEN rs
    ELSE MergeInto(EntryOrInsert(rs, MinKey(DOMAIN sub), sub[MinKey(DOMAIN sub)]),
                   Remove(sub, MinKey(DOMAIN sub)))

Init ==
    /\ args \in ArgsSet
    /\ pc = "load"
    /\ idx = 1
    /\ reasons = EmptyMap
    /\ subsys = None
    /\ calls = <<>>
    /\ stdout = <<>>
    /\ stderr = <<>>
    /\ err = None

\* main returns Err(e): the process exits with the message, nothing printed
Bail(e) ==
    /\ pc' = "failed"
    /\ err' = Some(e)
    /\ UNCHANGED <<args, idx, reasons, subsys, stdout, stderr>>

\* BtfCollection::from_dir(args.btf).or_else(|e| bail!(...))?
LoadBtf ==
    /\ pc = "load"
    /\ \E ok \in BOOLEAN :
          IF ok
          THEN /\ pc' = "core"
               /\ UNCHANGED <<args, idx, reasons, subsys, stdout, stderr, err>>
          ELSE Bail(LoadError)
    /\ UNCHANGED calls

ParseCoreLenient ==
    /\ pc = "core"
    /\ \E q \in QueryResults(CORE_ENUM) :
          /\ calls' = Append(calls, Call(CORE_ENUM, q))
          /\ IF parse_enum(q).tag = "Err" THEN Bail(parse_enum(q).err)
             ELSE /\ reasons' = IF parse_enum(q).tag = "None" THEN EmptyMap
                                ELSE Remove(parse_enum(q).val, SUBSYS_MASK)
                  /\ pc' = "ext"
                  /\ UNCHANGED <<args, idx, subsys, stdout, stderr, err>>

\* parse_enum(&btf, "skb_drop_reason"), then reasons.remove(&0xffff0000)
ParseCore ==
    /\ pc = "core"
    /\ \E q \in QueryResults(CORE_ENUM) :
          /\ calls' = Append(calls, Call(CORE_ENUM, q))
          /\ CASE parse_enum(q).tag = "Some" ->
                    /\ reasons' = Remove(parse_enum(q).val, SUBSYS_MASK)
                    /\ pc' = "ext"
                    /\ UNCHANGED <<args, idx, subsys, stdout, stderr, err>>
               [] parse_enum(q).tag = "None" -> Bail(UnsupportedError)
               [] OTHER -> Bail(parse_enum(q).err)

ParseNonCoreIgnoreErr ==
    /\ pc = "ext"
    /\ \E q \in QueryResults(NON_CORE_DROP_REASONS[idx]) :
          /\ calls' = Append(calls, Call(NON_CORE_DROP_REASONS[idx], q))
          /\ reasons' = IF parse_enum(q).tag = "Some"
                        THEN MergeInto(reasons, parse_enum(q).val)
                        ELSE reasons
          /\ idx' = idx + 1
          /\ pc' = IF idx = Len(NON_CORE_DROP_REASONS) THEN "subsys" ELSE "ext"
          /\ UNCHANGED <<args, subsys, stdout, stderr, err>>

\* one iteration of `for r#enum in NON_CORE_DROP_REASONS`
ParseNonCore ==
    /\ pc = "ext"
    /\ \E q \in QueryResults(NON_CORE_DROP_REASONS[idx]) :
          /\ calls' = Append(calls, Call(NON_CORE_DROP_REASONS[idx], q))
          /\ IF parse_enum(q).tag = "Err" THEN Bail(parse_enum(q).err)
             ELSE /\ reasons' = IF parse_enum(q).tag = "Some"
                                THEN MergeInto(reasons, parse_enum(q).val)
                                ELSE reasons
                  /\ idx' = idx + 1
                  /\ pc' = IF idx = Len(NON_CORE_DROP_REASONS) THEN "subsys" ELSE "ext"
                  /\ UNCHANGED <<args, subsys, stdout, stderr, err>>

\* parse_enum(&btf, "skb_drop_reason_subsys")? and the INFO notice
ParseSubsys ==
    /\ pc = "subsys"
    /\ \E q \in QueryResults(SUBSYS_ENUM) :
          /\ calls' = Append(calls, Call(SUBSYS_ENUM, q))
          /\ IF parse_enum(q).tag = "Err" THEN Bail(parse_enum(q).err)
             ELSE /\ subsys' = parse_enum(q)
                  /\ stderr' = IF /\ parse_enum(q).tag = "Some"
                                  /\ Cardinality(DOMAIN parse_enum(q).val)
                                        > SKB_DROP_REASON_SUBSYS_NUM
                               THEN Append(stderr, InfoNotice)
                               ELSE stderr
                  /\ pc' = "output"
                  /\ UNCHANGED <<args, idx, reasons, stdout, err>>

\* println!("{}", format_reason(resolve, &reasons, subsys.as_ref(), args.verbose))
OutputResolve ==
    /\ pc = "output"
    /\ args.resolve.tag = "Some"
    /\ stdout' = Append(stdout, format_reason(args.resolve.val, reasons, subsys,
                                              args.verbose))
    /\ pc' = "done"
    /\ UNCHANGED <<args, idx, reasons, subsys, calls, stderr, err>>

\* "raw" => reasons.keys().for_each(|i| println!("{i:width$} = {}", ...))
OutputRaw ==
    /\ pc = "output"
    /\ args.resolve.tag = "None"
    /\ args.format = "raw"
    /\ stdout' = stdout \o RawLines(reasons, subsys, args.verbose)
    /\ pc' = "done"
    /\ UNCHANGED <<args, idx, reasons, subsys, calls, stderr, err>>

\* "bpftrace" => println!("{}", format_bpftrace(&reasons))
OutputBpftrace ==
    /\ pc = "output"
    /\ args.resolve.tag = "None"
    /\ args.format = "bpftrace"
    /\ stdout' = Append(stdout, format_bpftrace(reasons))
    /\ pc' = "done"
    /\ UNCHANGED <<args, idx, reasons, subsys, calls, stderr, err>>

\* "stap" => println!("{}", format_stap(&reasons))
OutputStap ==
    /\ pc = "output"
    /\ args.resolve.tag = "None"
    /\ args.format = "stap"
    /\ stdout' = Append(stdout, format_stap(reasons))
    /\ pc' = "done"
    /\ UNCHANGED <<args, idx, reasons, subsys, calls, stderr, err>>

Next ==
    \/ LoadBtf
    \/ ParseCore
    \/ ParseNonCore
    \/ ParseSubsys
    \/ OutputResolve
    \/ OutputRaw
    \/ OutputBpftrace
    \/ OutputStap

Spec == Init /\ [][Next]_vars

(***************************************************************************)
(* Reading the run's log and its output.                                   *)
(***************************************************************************)
Done == pc = "done"

\* The enumeration `name` was extracted and found
Present(name) ==
    \E i \in DOMAIN calls : calls[i].name = name /\ calls[i].ret.tag = "Some"

\* What parse_enum returned for it
Table(name) ==
    calls[CHOOSE i \in DOMAIN calls :
             calls[i].name = name /\ calls[i].ret.tag = "Some"].ret.val

KeysIfPresent(name) == IF Present(name) THEN DOMAIN Table(name) ELSE {}

IsDigit(c) == \E d \in 0..9 : DigitChar(d) = c

DigitOf(c) == CHOOSE d \in 0..9 : DigitChar(d) = c

\* The text of a printed line before its first " = "
CodeField(line) ==
    SubSeq(line, 1,
           (CHOOSE i \in 1..Len(line) :
               /\ SubSeq(line, i, i + 2) = " = "
               /\ \A j \in 1..(i - 1) : SubSeq(line, j, j + 2) # " = ") - 1)

RECURSIVE TrimLeft(_)
TrimLeft(s) ==
    IF Len(s) > 0 /\ SubSeq(s, 1, 1) = " " THEN TrimLeft(SubSeq(s, 2, Len(s))) ELSE s

\* The u32 a string of decimal digits denotes
RECURSIVE ParseU32(_, _)
ParseU32(s, acc) ==
    IF Len(s) = 0 THEN acc
    ELSE ParseU32(SubSeq(s, 2, Len(s)),
                  <<acc[1] * 10 + (acc[2] * 10 + DigitOf(SubSeq(s, 1, 1))) \div 65536,
                    (acc[2] * 10 + DigitOf(SubSeq(s, 1, 1))) % 65536>>)

LineCode(line) == ParseU32(TrimLeft(CodeField(line)), <<0, 0>>)

RECURSIVE Fill(_, _)
Fill(c, n) == IF n <= 0 THEN "" ELSE c \o Fill(c, n - 1)

RawMode == Done /\ args.resolve.tag = "None" /\ args.format = "raw"

\* Number of decimal digits of the largest code of the table, 1 when it is empty
CommonWidth == IF DOMAIN reasons = {} THEN 1 ELSE Len(Decimal(MaxKeyOf(DOMAIN reasons)))

\* The raw line of code k with its code left-filled with c to the common width
FilledLine(c, k) ==
    Fill(c, CommonWidth - Len(Decimal(k))) \o Decimal(k) \o " = "
    \o format_reason(k, reasons, subsys, args.verbose)

(***************************************************************************)
(* C1.  As claimed: on a finished run every code of the core enumeration   *)
(* is in the merged table under the core's name.                           *)
(***************************************************************************)
C1_CorePrecedenceAllCodes ==
    Done => \A c \in DOMAIN Table(CORE_ENUM) :
                c \in DOMAIN reasons /\ reasons[c] = Table(CORE_ENUM)[c]

(* C1, amended: on a finished run every code of the core enumeration other *)
(* than the mask 0xffff0000 is in the merged table under the core's name,  *)
(* whatever the extensions define.                                         *)
C1_CorePrecedence ==
    Done => \A c \in DOMAIN Table(CORE_ENUM) \ {SUBSYS_MASK} :
                c \in DOMAIN reasons /\ reasons[c] = Table(CORE_ENUM)[c]

C1_Witness ==
    /\ Done
    /\ \E c \in DOMAIN Table(CORE_ENUM) \ {SUBSYS_MASK} :
          \E e \in {"mac80211_drop_reason", "ovs_drop_reason"} :
             /\ Present(e)
             /\ c \in DOMAIN Table(e)
             /\ Table(e)[c] # Table(CORE_ENUM)[c]

(***************************************************************************)
(* C2.  On a finished run a code absent from the core enumeration and      *)
(* defined by both mac80211_drop_reason and ovs_drop_reason has the name   *)
(* mac80211_drop_reason gives it.                                          *)
(***************************************************************************)
C2_ExtensionPrecedence ==
    (Done /\ Present("mac80211_drop_reason") /\ Present("ovs_drop_reason")) =>
        \A c \in (DOMAIN Table("mac80211_drop_reason")
                    \cap DOMAIN Table("ovs_drop_reason")) \ DOMAIN Table(CORE_ENUM) :
            c \in DOMAIN reasons /\ reasons[c] = Table("mac80211_drop_reason")[c]

C2_Witness ==
    /\ Done /\ Present("mac80211_drop_reason") /\ Present("ovs_drop_reason")
    /\ \E c \in (DOMAIN Table("mac80211_drop_reason")
                    \cap DOMAIN Table("ovs_drop_reason")) \ DOMAIN Table(CORE_ENUM) :
          /\ Table("mac80211_drop_reason")[c] # Table("ovs_drop_reason")[c]
          /\ c # SUBSYS_MASK

C4_QueryFailureIsFatal ==
    \A i \in DOMAIN calls :
        calls[i].query = "err" => calls[i].ret.tag = "Err" /\ pc = "failed"

(* C4, amended: a failed resolve_types_by_name makes parse_enum report the *)
(* enumeration as absent (None), never an error: for skb_drop_reason the   *)
(* run then fails as unsupported, for an extension the run goes on, for    *)
(* skb_drop_reason_subsys the run goes on without a subsystem table.       *)
C4_QueryFailureIsAbsence ==
    \A i \in DOMAIN calls :
        calls[i].query = "err" =>
            /\ calls[i].ret = None
            /\ calls[i].name = CORE_ENUM =>
                  pc = "failed" /\ err = Some(UnsupportedError)
            /\ (calls[i].name # CORE_ENUM /\ i = Len(calls)) => pc # "failed"
            /\ calls[i].name = SUBSYS_ENUM => subsys = None /\ err = None

C4_Witness ==
    /\ Done
    /\ stdout # <<>>
    /\ \E i \in DOMAIN calls :
          calls[i].query = "err" /\ calls[i].name = "mac80211_drop_reason"
    /\ \E i \in DOMAIN calls : calls[i].query = "err" /\ calls[i].name = SUBSYS_ENUM

(***************************************************************************)
(* C5.  When skb_drop_reason is not found the run fails with the           *)
(* Unsupported error right after that extraction: no other enumeration is  *)
(* extracted, there is no table and nothing on stdout; and the run fails   *)
(* with that error in no other case.                                       *)
(***************************************************************************)
C5_Unsupported ==
    /\ (Len(calls) >= 1 /\ calls[1].ret.tag = "None") =>
          /\ pc = "failed"
          /\ err = Some(UnsupportedError)
          /\ Len(calls) = 1
          /\ reasons = EmptyMap
          /\ stdout = <<>>
    /\ err = Some(UnsupportedError) =>
          /\ Len(calls) = 1
          /\ calls[1].name = CORE_ENUM
          /\ calls[1].ret.tag = "None"
    /\ (pc = "failed" /\ (calls = <<>> \/ calls[Len(calls)].ret.tag = "Err")) =>
          err # Some(UnsupportedError)

C5_Witness ==
    /\ pc = "failed"
    /\ err = Some(UnsupportedError)
    /\ calls[1].query = "ok"

(***************************************************************************)
(* C6.  The line printed for --resolve: the name, or "Unknown reason       *)
(* {code}" for a code not in the table; the annotation is attempted for an *)
(* unknown code always and for a known one only when verbose; it appends   *)
(* " (sub-system: {name})" exactly when there is a subsystem table holding *)
(* code >> 16.                                                             *)
(***************************************************************************)
C6_FormatReason ==
    (Done /\ args.resolve.tag = "Some") =>
        LET code == args.resolve.val
            known == code \in DOMAIN reasons
            base == IF known THEN reasons[code] ELSE "Unknown reason " \o Decimal(code)
            attempted == ~known \/ args.verbose
            found == subsys.tag = "Some" /\ <<0, code[1]>> \in DOMAIN subsys.val
        IN  stdout = << IF attempted /\ found
                        THEN base \o " (sub-system: " \o subsys.val[<<0, code[1]>>] \o ")"
                        ELSE base >>

C6_Witness ==
    /\ Done
    /\ ~args.verbose
    /\ stdout = << "Unknown reason 131077 (sub-system: "
                   \o "SKB_DROP_REASON_SUBSYS_MAC80211_MONITOR)" >>

(***************************************************************************)
(* C7.  In raw mode the codes of the printed lines are strictly ascending  *)
(* and are exactly the keys of the merged table, one line each.            *)
(***************************************************************************)
C7_RawAscending ==
    RawMode =>
        /\ \A n \in 1..(Len(stdout) - 1) :
              Less(LineCode(stdout[n]), LineCode(stdout[n + 1]))
        /\ {LineCode(stdout[n]) : n \in 1..Len(stdout)} = DOMAIN reasons
        /\ Len(stdout) = Cardinality(DOMAIN reasons)

C7_Witness ==
    /\ RawMode
    /\ Len(stdout) = 2
    /\ LineCode(stdout[1]) = <<0, 0>>
    /\ LineCode(stdout[2]) = <<0, 12>>
    /\ Present("ovs_drop_reason")
    /\ <<0, 0>> \in DOMAIN Table("ovs_drop_reason")
    /\ <<0, 0>> \notin DOMAIN Table(CORE_ENUM)

(***************************************************************************)
(* C8.  As claimed: in raw mode each line is the code left-filled with '0' *)
(* to the common width, " = " and the rendered name.                       *)
(***************************************************************************)
C8_ZeroPadded ==
    RawMode =>
        /\ Len(stdout) = Cardinality(DOMAIN reasons)
        /\ \A k \in DOMAIN reasons :
              \E n \in 1..Len(stdout) : stdout[n] = FilledLine("0", k)

(* C8, amended: in raw mode each line is the code left-filled with spaces  *)
(* to the number of decimal digits of the largest code of the table (1 for *)
(* a largest code of 0), " = " and the rendered name.                      *)
C8_SpacePadded ==
    RawMode =>
        /\ Len(stdout) = Cardinality(DOMAIN reasons)
        /\ \A k \in DOMAIN reasons :
              \E n \in 1..Len(stdout) : stdout[n] = FilledLine(" ", k)

C8_Witness ==
    /\ RawMode
    /\ ~args.verbose
    /\ stdout = <<" 0 = TCP_CSUM", "12 = MAC_FILTER">>

(***************************************************************************)
(* C9.  A member name that cannot be resolved, in any extracted            *)
(* enumeration, aborts the run at that extraction with that error: no      *)
(* later enumeration is extracted and nothing is on stdout.                *)
(***************************************************************************)
C9_NameFailureIsFatal ==
    \A i \in DOMAIN calls :
        calls[i].ret.tag = "Err" =>
            /\ pc = "failed"
            /\ err = Some(calls[i].ret.err)
            /\ i = Len(calls)
            /\ stdout = <<>>

C9_Witness ==
    /\ Len(calls) = 4
    /\ calls[4].ret.tag = "Err"
    /\ DOMAIN reasons # {}

(***************************************************************************)
(* C10.  On a finished run the keys of the merged table are the core's     *)
(* keys without 0xffff0000, together with the keys of every extension that *)
(* is present.                                                             *)
(***************************************************************************)
C10_KeySet ==
    Done =>
        /\ Present(CORE_ENUM)
        /\ DOMAIN reasons =
              (DOMAIN Table(CORE_ENUM) \ {SUBSYS_MASK})
              \cup KeysIfPresent("mac80211_drop_reason")
              \cup KeysIfPresent("ovs_drop_reason")

C10_Witness ==
    /\ Done
    /\ ~Present("mac80211_drop_reason")
    /\ Present("ovs_drop_reason")
    /\ Cardinality(DOMAIN Table("ovs_drop_reason") \ DOMAIN Table(CORE_ENUM)) = 2
    /\ DOMAIN Table(CORE_ENUM) # {}

====
